---- MODULE Spec2Model ----
(***************************************************************************)
(* Webhook receiver of src/main.py: POST /api-endpoint answers at once and *)
(* schedules process_request, which creates a repository, writes four      *)
(* files, looks up the latest commit and notifies the evaluation URL with  *)
(* up to five attempts.                                                    *)
(*                                                                         *)
(* One action is one stretch of code between two awaits: the remote call   *)
(* that ends the previous stretch is answered by the environment (status,  *)
(* body or transport error) and the code runs up to its next await.  pc    *)
(* names the call in flight; a call enters the log when it is answered.    *)
(* Every way out of the workflow leaves `async with httpx.AsyncClient()`,   *)
(* whose exit returns to the event loop once per pooled connection that is *)
(* still open (none, one or two, as the environment left them)             *)
(* before the task ends (and before the except clause logs).               *)
(* File contents (licence text, README, placeholders) are fixed texts that *)
(* no call's outcome depends on; a write is logged by path and message.    *)
(***************************************************************************)
EXTENDS Integers, Sequences, FiniteSets, TLC

VARIABLES
    inbound,             \* per request: the bodies the client may still send
    body,                \* per request: the raw body the handler received
    http,                \* per request: the handler's response and whether it was flushed
    tasks,               \* per request: background_tasks, the scheduled (data, evaluation_url)
    pc,                  \* per request: position of process_request
    calls,               \* per request: the remote calls issued so far, with their answers
    repo_data,           \* process_request local
    commit_sha,          \* process_request local
    evaluation_payload,  \* process_request local
    delay,               \* process_request local
    attempt,             \* process_request local (loop variable of range(5))
    genIdx,              \* process_request local: next entry of llm_generated_files
    sleeps,              \* per request: the asyncio.sleep durations completed
    outcome,             \* per request: how process_request ended
    exit                 \* per request: how the client block is being left, and the
                         \* connections its exit still has to close

vars == <<inbound, body, http, tasks, pc, calls, repo_data, commit_sha,
          evaluation_payload, delay, attempt, genIdx, sleeps, outcome, exit>>

-----------------------------------------------------------------------------
(* Bounds and program constants *)

MaxCommits == 2

Attempts == 5

InitialDelay == 1

GITHUB_API_URL == "https://api.github.com"

GITHUB_TOKEN == "ghp_secret"

\* Request slots; Init decides which of them have an inbound call in flight.
Reqs == {"r1", "r2"}

Keys == {"email", "task", "round", "nonce", "evaluationURL", "evaluation_url", "usercode"}

Owners == {"alice", "bob"}

Shas == {"c0ffee", "deadbeef"}

-----------------------------------------------------------------------------
(* Inbound bodies *)

\* JSON objects with every key present; Bodies drops any subset of the keys.
FullBodies ==
    [email : {"", "s@x.com"}, task : {"", "demo-repo"}, round : {0, 1, 2},
     nonce : {"", "ab12"}, evaluationURL : {"http://cb/eval"},
     evaluation_url : {"", "http://cb/eval"}, usercode : {"u1"}]

Restrict(f, S) == [k \in S |-> f[k]]

Bodies == {Restrict(f, S) : f \in FullBodies, S \in SUBSET Keys}

\* What request.json() is given: an object, another JSON value, or no JSON.
RawBodies ==
    {[kind |-> "object", data |-> d] : d \in Bodies}
        \cup {[kind |-> "array", data |-> <<>>], [kind |-> "malformed", data |-> <<>>]}

NoBody == [kind |-> "none", data |-> <<>>]

Has(data, k) == k \in DOMAIN data

\* Python truth value of a JSON number (round) or string (the other keys).
Falsy(k, v) == IF k = "round" THEN v = 0 ELSE v = ""

\* not data.get(k)
NotGet(data, k) == ~Has(data, k) \/ Falsy(k, data[k])

\* data.get(k, default) for the string-valued keys
Get(data, k, default) == IF Has(data, k) THEN data[k] ELSE default

required_keys == {"email", "task", "round", "nonce"}

missing(data) == {k \in required_keys : NotGet(data, k)}

\* if evaluation_url and not missing
ShouldSchedule(data) == ~NotGet(data, "evaluation_url") /\ missing(data) = {}

NoResponse == [status |-> 0, content |-> <<>>, sent |-> FALSE]

\* The response api_endpoint produces for a raw body, and the tasks it adds.
HandlerResponse(raw) ==
    IF raw.kind = "object"
    THEN [status |-> 200,
          content |-> [usercode |-> Get(raw.data, "usercode", "default_usercode")],
          sent |-> FALSE]
    ELSE [status |-> 500, content |-> [detail |-> "Internal Server Error"], sent |-> FALSE]

HandlerTasks_Unchecked(raw) ==
    <<[data |-> raw.data, evaluation_url |-> Get(raw.data, "evaluation_url", "None")]>>

\* background_tasks after the handler ran: one task if the checks passed.
HandlerTasks(raw) ==
    IF raw.kind = "object" /\ ShouldSchedule(raw.data)
    THEN <<[data |-> raw.data, evaluation_url |-> raw.data["evaluation_url"]]>>
    ELSE <<>>

-----------------------------------------------------------------------------
(* process_request: values *)

NoRepo == [full_name |-> "", html_url |-> "", owner |-> [login |-> ""], name |-> ""]

\* The repository object the hosting API answers for owner o and repository n.
RepoJson(o, n) ==
    [full_name |-> o \o "/" \o n, html_url |-> "https://github.com/" \o o \o "/" \o n,
     owner |-> [login |-> o], name |-> n]

NoPayload ==
    [email |-> "", task |-> "", round |-> 0, nonce |-> "", repo_url |-> "",
     commit_sha |-> "", pages_url |-> ""]

headers ==
    ("Authorization" :> ("token " \o GITHUB_TOKEN)) @@ ("Accept" :> "application/vnd.github+json")

eval_headers_Shared == headers

\* headers={"Content-Type": "application/json"} of the notification POST
eval_headers == ("Content-Type" :> "application/json")

llm_generated_files_Clash == <<"example.py", "README.md">>

llm_generated_files == <<"example.py", "config.json">>

ContentsUrl(repo, path) == GITHUB_API_URL \o "/repos/" \o repo.full_name \o "/contents/" \o path

Payload(data, repo, sha) ==
    [email |-> data["email"], task |-> data["task"], round |-> data["round"],
     nonce |-> data["nonce"], repo_url |-> repo.html_url, commit_sha |-> sha,
     pages_url |-> "https://" \o repo.owner.login \o ".github.io/" \o repo.name \o "/"]

Call(op, url, hdrs, json, ans) ==
    [op |-> op, url |-> url, headers |-> hdrs, json |-> json,
     err |-> ans.err, status |-> ans.status, body |-> ans.body, answer |-> ans.json]

\* Answers of the hosting API to POST /user/repos.  body tells what the
\* response body parses to: a repository object, an error object, or no JSON.
CreateAnswers(name) ==
    {[err |-> TRUE, status |-> 0, body |-> "none", json |-> NoRepo]}
        \cup {[err |-> FALSE, status |-> s, body |-> "repo", json |-> RepoJson(o, name)] :
                 s \in {200, 201}, o \in Owners}
        \cup {[err |-> FALSE, status |-> s, body |-> "error", json |-> NoRepo] : s \in {201, 422}}
        \cup {[err |-> FALSE, status |-> 502, body |-> "text", json |-> NoRepo]}

PutAnswers ==
    {[err |-> TRUE, status |-> 0, body |-> "none", json |-> <<>>],
     [err |-> FALSE, status |-> 201, body |-> "content", json |-> <<>>],
     [err |-> FALSE, status |-> 422, body |-> "error", json |-> <<>>]}

RECURSIVE SeqsUpTo(_, _)
SeqsUpTo(S, n) ==
    IF n = 0 THEN {<<>>}
    ELSE LET shorter == SeqsUpTo(S, n - 1)
         IN  shorter \cup {Append(s, x) : s \in {t \in shorter : Len(t) = n - 1}, x \in S}

CommitLists == SeqsUpTo({[sha |-> s] : s \in Shas}, MaxCommits)

CommitsAnswers ==
    {[err |-> TRUE, status |-> 0, body |-> "none", json |-> <<>>]}
        \cup {[err |-> FALSE, status |-> 200, body |-> "list", json |-> l] : l \in CommitLists}
        \cup {[err |-> FALSE, status |-> 404, body |-> "error", json |-> <<>>],
              [err |-> FALSE, status |-> 500, body |-> "text", json |-> <<>>],
              [err |-> FALSE, status |-> 200, body |-> "error", json |-> <<>>]}

EvalAnswers ==
    {[err |-> TRUE, status |-> 0, body |-> "none", json |-> <<>>],
     [err |-> FALSE, status |-> 200, body |-> "text", json |-> <<>>],
     [err |-> FALSE, status |-> 500, body |-> "text", json |-> <<>>]}

OnException_Reraise == "escaped"

\* The except clause of process_request: the exception is logged and dropped.
OnException == "caught"

\* How process_request ends once the client block was left by `how`: an
\* exception reaches the except clause, a return or the end of the loop ends
\* the coroutine.
Ended(how) == IF how = "raised" THEN OnException ELSE how

NoExit == [how |-> "none", left |-> 0]

IsHostingCall(c) == c.op # "notify"

IsEvalCall(c) == c.op = "notify"

\* The pooled connections of the AsyncClient that may be open after the calls
\* of log: at most one per host whose last call was answered; a transport
\* error drops the connection of its host.  Fewer are open when a connection
\* idled past the pool's keep-alive expiry, when the answer carried
\* `Connection: close`, or when the evaluation URL is on the hosting host.
OpenConnections(log) ==
    LET hosting == SelectSeq(log, IsHostingCall)
        evals == SelectSeq(log, IsEvalCall)
    IN  (IF Len(hosting) > 0 /\ ~hosting[Len(hosting)].err THEN {"hosting"} ELSE {})
            \cup (IF Len(evals) > 0 /\ ~evals[Len(evals)].err THEN {"evaluation"} ELSE {})

CreateFailed_Not4xx(ans) == ans.status >= 400

\* if response.status_code != 201
CreateFailed(ans) == ans.status # 201

CommitsFailed(ans) == ans.status # 200

FirstSha_Default(ans) ==
    IF ans.body = "list" /\ Len(ans.json) > 0
    THEN [raised |-> FALSE, sha |-> ans.json[1].sha]
    ELSE [raised |-> ans.body # "list", sha |-> "None"]

FirstSha_Last(ans) ==
    IF ans.body = "list" /\ Len(ans.json) > 0
    THEN [raised |-> FALSE, sha |-> ans.json[Len(ans.json)].sha]
    ELSE [raised |-> TRUE, sha |-> ""]

\* commits_response.json()[0]["sha"]: raises on a body that is no JSON, on an
\* object (KeyError 0) and on an empty list (IndexError).
FirstSha(ans) ==
    IF ans.body = "list" /\ Len(ans.json) > 0
    THEN [raised |-> FALSE, sha |-> ans.json[1].sha]
    ELSE [raised |-> TRUE, sha |-> ""]

NextDelay_Linear(d) == d + 1

\* delay *= 2
NextDelay(d) == d * 2

\* for attempt in range(5): is there an iteration after iteration a
RangeHasNext(a) == a + 1 < Attempts

StoreRepo_Global(r, v) == [q \in Reqs |-> v]

\* repo_data = response.json(): a local of this run of process_request
StoreRepo(r, v) == [repo_data EXCEPT ![r] = v]

BackgroundMayStart_Inline(r) == TRUE

\* BackgroundTasks run once the response they are attached to was sent.
BackgroundMayStart(r) == http[r].sent

-----------------------------------------------------------------------------
(* Initial state: one inbound call is in flight *)

\* Nothing has run yet; inb gives the bodies each client may send.
Start(inb) ==
    /\ inbound = inb
    /\ body = [r \in Reqs |-> NoBody]
    /\ http = [r \in Reqs |-> NoResponse]
    /\ tasks = [r \in Reqs |-> <<>>]
    /\ pc = [r \in Reqs |-> "idle"]
    /\ calls = [r \in Reqs |-> <<>>]
    /\ repo_data = [r \in Reqs |-> NoRepo]
    /\ commit_sha = [r \in Reqs |-> ""]
    /\ evaluation_payload = [r \in Reqs |-> NoPayload]
    /\ delay = [r \in Reqs |-> 0]
    /\ attempt = [r \in Reqs |-> 0]
    /\ genIdx = [r \in Reqs |-> 1]
    /\ sleeps = [r \in Reqs |-> <<>>]
    /\ outcome = [r \in Reqs |-> "none"]
    /\ exit = [r \in Reqs |-> NoExit]

TypeInit(arriving) == Start([r \in Reqs |-> IF r \in arriving THEN RawBodies ELSE {}])

Init == TypeInit({"r1"})

locals == <<repo_data, commit_sha, evaluation_payload, delay, attempt, genIdx, sleeps>>

web == <<inbound, body, http, tasks>>

\* process_request of r ends with outcome o.
Finish(r, o) ==
    /\ pc' = [pc EXCEPT ![r] = "done"]
    /\ outcome' = [outcome EXCEPT ![r] = o]

Goto(r, l) ==
    /\ pc' = [pc EXCEPT ![r] = l]
    /\ UNCHANGED <<outcome, exit>>

\* The client block (line 74) is left by `how` (a return, the break, the end
\* of the loop, or a raised exception) after the calls of log: its exit
\* suspends once per connection that is still open; with none open the task
\* ends at once.  How many of the connections that may be open still are is
\* the environment's choice.
Leave(r, how, log) ==
    \E k \in 0..Cardinality(OpenConnections(log)) :
        /\ exit' = [exit EXCEPT ![r] = [how |-> how, left |-> k]]
        /\ IF k = 0
           THEN Finish(r, Ended(how))
           ELSE pc' = [pc EXCEPT ![r] = "closing"] /\ UNCHANGED outcome

Compensation_Delete(c) ==
    IF c.op = "put" /\ c.err
    THEN <<[op |-> "delete", url |-> c.url, headers |-> c.headers, json |-> <<>>,
            err |-> FALSE, status |-> 204, body |-> "none", answer |-> <<>>]>>
    ELSE <<>>

\* The remote calls issued to undo earlier work once call c has failed: the
\* return statements and the except clause only log, they issue none.
Compensation(c) == <<>>

\* Call c and its answer are recorded.
Log(r, c) == calls' = [calls EXCEPT ![r] = Append(@, c) \o Compensation(c)]

-----------------------------------------------------------------------------
(* api_endpoint *)

\* The handler runs on an inbound body: lines 34-56.
ApiEndpoint(r) ==
    /\ \E raw \in inbound[r] :
          /\ body' = [body EXCEPT ![r] = raw]
          /\ http' = [http EXCEPT ![r] = HandlerResponse(raw)]
          /\ tasks' = [tasks EXCEPT ![r] = HandlerTasks(raw)]
    /\ inbound' = [inbound EXCEPT ![r] = {}]
    /\ UNCHANGED <<pc, calls, outcome, exit, locals>>

\* The framework flushes the response the handler returned or raised.
SendResponse(r) ==
    /\ http[r].status # 0
    /\ ~http[r].sent
    /\ http' = [http EXCEPT ![r].sent = TRUE]
    /\ UNCHANGED <<inbound, body, tasks, pc, calls, outcome, exit, locals>>

-----------------------------------------------------------------------------
(* process_request *)

\* Lines 59-76: the scheduled task starts, builds headers and payload, opens
\* the client and issues the create-repository call; it is then suspended at
\* line 76 with that call in flight.
StartTask(r) ==
    /\ pc[r] = "idle"
    /\ Len(tasks[r]) > 0
    /\ BackgroundMayStart(r)
    /\ Goto(r, "create")
    /\ UNCHANGED <<web, calls, locals>>

\* Lines 76-106: the create-repository call is answered, the answer is
\* checked and the LICENSE URL is built.
CreateRepo(r) ==
    /\ pc[r] = "create"
    /\ LET data == tasks[r][1].data
           repo_name == Get(data, "task", "default-repo-name")
           json == [name |-> repo_name,
                    description |-> "A FastAPI-based application for solving captcha tasks.",
                    private |-> FALSE]
       IN  \E ans \in CreateAnswers(repo_name) :
              /\ Log(r, Call("create", GITHUB_API_URL \o "/user/repos", headers, json, ans))
              /\ IF ans.err THEN
                    Leave(r, "raised", calls'[r]) /\ UNCHANGED repo_data
                 ELSE IF CreateFailed(ans) THEN
                    \* the log line parses the body
                    /\ Leave(r, IF ans.body = "text" THEN "raised" ELSE "aborted", calls'[r])
                    /\ UNCHANGED repo_data
                 ELSE IF ans.body = "text" THEN
                    Leave(r, "raised", calls'[r]) /\ UNCHANGED repo_data
                 ELSE IF ans.body = "error" THEN
                    \* repo_data['full_name'] raises KeyError
                    Leave(r, "raised", calls'[r]) /\ UNCHANGED repo_data
                 ELSE
                    /\ repo_data' = StoreRepo(r, ans.json)
                    /\ Goto(r, "license")
    /\ UNCHANGED <<web, commit_sha, evaluation_payload, delay, attempt, genIdx, sleeps>>

\* Lines 106-110, then up to the README await: the answer is not inspected.
PutLicense(r) ==
    /\ pc[r] = "license"
    /\ \E ans \in PutAnswers :
          /\ Log(r, Call("put", ContentsUrl(repo_data[r], "LICENSE"), headers,
                         [message |-> "Add MIT License"], ans))
          /\ IF ans.err THEN Leave(r, "raised", calls'[r]) ELSE Goto(r, "readme")
    /\ UNCHANGED <<web, locals>>

\* Lines 152-156, then up to the first await of the loop.
PutReadme(r) ==
    /\ pc[r] = "readme"
    /\ \E ans \in PutAnswers :
          /\ Log(r, Call("put", ContentsUrl(repo_data[r], "README.md"), headers,
                         [message |-> "Add README.md"], ans))
          /\ IF ans.err THEN Leave(r, "raised", calls'[r]) ELSE Goto(r, "generated")
    /\ UNCHANGED <<web, locals>>

\* Lines 163-169: one iteration of the loop over llm_generated_files.
PutGenerated(r) ==
    /\ pc[r] = "generated"
    /\ LET filename == llm_generated_files[genIdx[r]]
       IN  \E ans \in PutAnswers :
              /\ Log(r, Call("put", ContentsUrl(repo_data[r], filename), headers,
                             [message |-> "Add " \o filename], ans))
              /\ IF ans.err THEN
                    Leave(r, "raised", calls'[r]) /\ UNCHANGED genIdx
                 ELSE IF genIdx[r] < Len(llm_generated_files) THEN
                    /\ genIdx' = [genIdx EXCEPT ![r] = @ + 1]
                    /\ Goto(r, "generated")
                 ELSE
                    Goto(r, "commits") /\ UNCHANGED genIdx
    /\ UNCHANGED <<web, repo_data, commit_sha, evaluation_payload, delay, attempt, sleeps>>

\* Lines 172-190: the commit list is fetched, the payload is assembled and
\* the retry loop is entered.
GetCommits(r) ==
    /\ pc[r] = "commits"
    /\ \E ans \in CommitsAnswers :
          /\ Log(r, Call("commits",
                         GITHUB_API_URL \o "/repos/" \o repo_data[r].full_name \o "/commits",
                         headers, <<>>, ans))
          /\ IF ans.err THEN
                Leave(r, "raised", calls'[r]) /\ UNCHANGED <<commit_sha, evaluation_payload, delay>>
             ELSE IF CommitsFailed(ans) THEN
                /\ Leave(r, IF ans.body = "text" THEN "raised" ELSE "aborted", calls'[r])
                /\ UNCHANGED <<commit_sha, evaluation_payload, delay>>
             ELSE IF FirstSha(ans).raised THEN
                Leave(r, "raised", calls'[r]) /\ UNCHANGED <<commit_sha, evaluation_payload, delay>>
             ELSE
                /\ commit_sha' = [commit_sha EXCEPT ![r] = FirstSha(ans).sha]
                /\ evaluation_payload' =
                       [evaluation_payload EXCEPT
                           ![r] = Payload(tasks[r][1].data, repo_data[r], FirstSha(ans).sha)]
                /\ delay' = [delay EXCEPT ![r] = InitialDelay]
                /\ Goto(r, "notify")
    /\ UNCHANGED <<web, repo_data, attempt, genIdx, sleeps>>

\* Lines 192-201: one POST to the evaluation URL and the check of its answer.
Notify(r) ==
    /\ pc[r] = "notify"
    /\ \E ans \in EvalAnswers :
          /\ Log(r, Call("notify", tasks[r][1].evaluation_url, eval_headers,
                         evaluation_payload[r], ans))
          /\ IF ans.err THEN Leave(r, "raised", calls'[r])
             ELSE IF ans.status = 200 THEN Leave(r, "delivered", calls'[r])
             ELSE Goto(r, "sleep")
    /\ UNCHANGED <<web, locals>>

\* Lines 201-204: the sleep ends, the delay doubles, the loop goes on or ends.
Sleep(r) ==
    /\ pc[r] = "sleep"
    /\ sleeps' = [sleeps EXCEPT ![r] = Append(@, delay[r])]
    /\ delay' = [delay EXCEPT ![r] = NextDelay(@)]
    /\ IF RangeHasNext(attempt[r])
       THEN /\ attempt' = [attempt EXCEPT ![r] = @ + 1]
            /\ Goto(r, "notify")
       ELSE /\ Leave(r, "exhausted", calls[r])
            /\ UNCHANGED attempt
    /\ UNCHANGED <<web, calls, repo_data, commit_sha, evaluation_payload, genIdx>>

\* Line 74, AsyncClient.__aexit__: one connection is closed and the coroutine
\* resumes; it suspends again if another is open, else the task ends (an
\* exception first reaches lines 205-206).
CloseClient(r) ==
    /\ pc[r] = "closing"
    /\ IF exit[r].left > 1
       THEN /\ exit' = [exit EXCEPT ![r].left = @ - 1]
            /\ UNCHANGED <<pc, outcome>>
       ELSE /\ exit' = [exit EXCEPT ![r].left = 0]
            /\ Finish(r, Ended(exit[r].how))
    /\ UNCHANGED <<web, calls, locals>>

Next ==
    \E r \in Reqs :
        \/ ApiEndpoint(r)
        \/ SendResponse(r)
        \/ StartTask(r)
        \/ CreateRepo(r)
        \/ PutLicense(r)
        \/ PutReadme(r)
        \/ PutGenerated(r)
        \/ GetCommits(r)
        \/ Notify(r)
        \/ Sleep(r)
        \/ CloseClient(r)

Spec == Init /\ [][Next]_vars

\* The event loop runs every task that can run, the framework flushes every
\* response, and every remote call returns with an answer or an error.
Fairness ==
    \A r \in Reqs :
        /\ WF_vars(SendResponse(r))
        /\ WF_vars(StartTask(r))
        /\ WF_vars(CreateRepo(r))
        /\ WF_vars(PutLicense(r))
        /\ WF_vars(PutReadme(r))
        /\ WF_vars(PutGenerated(r))
        /\ WF_vars(GetCommits(r))
        /\ WF_vars(Notify(r))
        /\ WF_vars(Sleep(r))
        /\ WF_vars(CloseClient(r))

FairSpec == Spec /\ Fairness

-----------------------------------------------------------------------------
(* Two requests whose background tasks interleave *)

\* Two clients with different data; both bodies pass the handler's checks.
ConcData ==
    [r1 |-> [email |-> "s@x.com", task |-> "demo-repo", round |-> 1, nonce |-> "ab12",
             evaluation_url |-> "http://cb/eval"],
     r2 |-> [email |-> "t@y.org", task |-> "other-repo", round |-> 2, nonce |-> "cd34",
             evaluation_url |-> "http://cb2/eval"]]

InitConc == Start([r \in Reqs |-> {[kind |-> "object", data |-> ConcData[r]]}])

\* The answers the environment gives in the concurrent runs: one owner, a
\* commit list of at most one entry, and refused writes only for LICENSE and
\* config.json; every kind of failure of every call stays possible.
PlainAnswer(c) ==
    /\ c.body = "repo" => c.answer.owner.login = "alice"
    /\ c.body = "list" => Len(c.answer) <= 1
    /\ (c.op = "put" /\ ~c.err /\ c.status # 201) =>
           c.json.message \in {"Add MIT License", "Add config.json"}

PlainStep ==
    \A r \in Reqs :
        Len(calls'[r]) > Len(calls[r]) => PlainAnswer(calls'[r][Len(calls'[r])])

NextConc ==
    \E r \in Reqs :
        \/ ApiEndpoint(r)
        \/ SendResponse(r)
        \/ StartTask(r)
        \/ CreateRepo(r) /\ PlainStep
        \/ PutLicense(r) /\ PlainStep
        \/ PutReadme(r) /\ PlainStep
        \/ PutGenerated(r) /\ PlainStep
        \/ GetCommits(r) /\ PlainStep
        \/ Notify(r) /\ PlainStep
        \/ Sleep(r)
        \/ CloseClient(r)

SpecConc == InitConc /\ [][NextConc]_vars

-----------------------------------------------------------------------------
(* Properties *)

\* The keys the specification requires of an inbound body.
SpecRequired == {"email", "task", "round", "nonce", "evaluationURL"}

IsNotify(c) == c.op = "notify"

NotifyCalls(r) == SelectSeq(calls[r], IsNotify)

\* A POST that was answered, with a status other than 200.
Refused(c) == ~c.err /\ c.status # 200

\* The workflow of r has left its client block: it is closing or has ended.
Over(r) == pc[r] \in {"closing", "done"}

RECURSIVE Pow2(_)
Pow2(n) == IF n = 0 THEN 1 ELSE 2 * Pow2(n - 1)

\* C1: a JSON object body that lacks one of email, task, round, nonce,
\* evaluationURL is answered 200 and schedules no workflow: no task is added
\* and no remote call is ever made for it.
C1_MissingFieldNoWorkflow ==
    \A r \in Reqs :
        (body[r].kind = "object" /\ \E k \in SpecRequired : ~Has(body[r].data, k))
            => (http[r].status = 200 /\ tasks[r] = <<>> /\ calls[r] = <<>>)

\* C2: a body in which email, task, round, nonce and evaluationURL are all
\* present schedules exactly one background run, whatever the values are.
C2_AllPresentSchedulesOne ==
    \A r \in Reqs :
        (body[r].kind = "object" /\ \A k \in SpecRequired : Has(body[r].data, k))
            => Len(tasks[r]) = 1

\* C3: a JSON object body with a task field is answered 200 with
\* {"usercode": t}, t being the value of task.
C3_UsercodeIsTask ==
    \A r \in Reqs :
        (body[r].kind = "object" /\ Has(body[r].data, "task"))
            => (http[r].status = 200 /\ http[r].content = [usercode |-> body[r].data["task"]])

\* C4: whenever the background workflow of a request has started or issued a
\* remote call, the 200 response of that request has already been sent, and
\* it is the response the handler computed from the body alone.
C4_ResponseBeforeWorkflow ==
    \A r \in Reqs :
        (pc[r] # "idle" \/ calls[r] # <<>>)
            => (/\ http[r].sent
                /\ http[r].status = 200
                /\ http[r].content = HandlerResponse(body[r]).content)

C4_Witness ==
    \E r \in Reqs : pc[r] = "done" /\ outcome[r] = "delivered" /\ http[r].sent

\* C5: when the create-repository call is answered with a status other than
\* 201, it stays the only remote call of the workflow: no file write, no
\* commit list, no notification.
C5_CreateFailureStops ==
    \A r \in Reqs :
        (/\ Len(calls[r]) >= 1
         /\ calls[r][1].op = "create"
         /\ ~calls[r][1].err
         /\ calls[r][1].status # 201)
            => (Len(calls[r]) = 1 /\ Over(r))

C5_Witness ==
    \E r \in Reqs :
        /\ Len(calls[r]) = 1
        /\ ~calls[r][1].err
        /\ calls[r][1].status = 200
        /\ calls[r][1].body = "repo"
        /\ outcome[r] = "aborted"

\* C6: when the commit-list call fails (transport failure or a status other
\* than 200) or returns an empty list, no notification is ever POSTed.
C6_NoCommitNoPayload ==
    \A r \in Reqs :
        \A i \in 1..Len(calls[r]) :
            (/\ calls[r][i].op = "commits"
             /\ \/ calls[r][i].err
                \/ calls[r][i].status # 200
                \/ (calls[r][i].body = "list" /\ Len(calls[r][i].answer) = 0))
                => (NotifyCalls(r) = <<>> /\ Over(r) /\ Len(calls[r]) = i)

C6_Witness ==
    \E r \in Reqs :
        /\ Len(calls[r]) = 6
        /\ calls[r][6].op = "commits"
        /\ calls[r][6].status = 200
        /\ calls[r][6].body = "list"
        /\ Len(calls[r][6].answer) = 0
        /\ pc[r] = "done"

\* C7: when the evaluation endpoint refuses the first N POSTs (N < 5, answers
\* other than 200) and answers 200 to the next, exactly N+1 POSTs are made,
\* the N waits in between are 1, 2, 4, 8, the workflow has ended, and every
\* POST carries the payload the workflow assembled.
C7_RetryUntilAccepted ==
    \A r \in Reqs :
        LET n == NotifyCalls(r)
        IN  \A N \in 0..(Attempts - 1) :
                (/\ Len(n) >= N + 1
                 /\ \A i \in 1..N : Refused(n[i])
                 /\ ~n[N + 1].err
                 /\ n[N + 1].status = 200)
                    => (/\ Len(n) = N + 1
                        /\ sleeps[r] = [i \in 1..N |-> Pow2(i - 1)]
                        /\ Over(r)
                        /\ \A i \in 1..(N + 1) :
                              /\ n[i].json = evaluation_payload[r]
                              /\ n[i].url = tasks[r][1].evaluation_url)

C7_Witness ==
    \E r \in Reqs :
        LET n == NotifyCalls(r)
        IN  /\ Len(n) = Attempts
            /\ \A i \in 1..(Attempts - 1) : Refused(n[i])
            /\ n[Attempts].status = 200
            /\ sleeps[r] = <<1, 2, 4, 8>>

\* A notification attempt that failed: a transport error, or an answer with a
\* status other than 200.
Failed(c) == c.err \/ c.status # 200

\* C8: at most 5 POSTs are ever made to the evaluation URL; when every
\* attempt fails (by a transport error or by an answer other than 200), the
\* workflow is over only after exactly 5 POSTs, and no exception escapes the
\* background task.
C8_Exhaustion ==
    \A r \in Reqs :
        LET n == NotifyCalls(r)
        IN  /\ Len(n) <= Attempts
            /\ (/\ Len(n) >= 1
                /\ \A i \in 1..Len(n) : Failed(n[i])
                /\ Over(r))
                   => /\ Len(n) = Attempts
                      /\ pc[r] = "done" => outcome[r] # "escaped"

\* C9: a transport error on a notification attempt before the fifth does not
\* end the retry loop: the workflow is never over with such an attempt as
\* its last POST.
C9_TransportErrorRetried ==
    \A r \in Reqs :
        LET n == NotifyCalls(r)
        IN  \A i \in 1..Len(n) :
                (n[i].err /\ i < Attempts) => ~(Over(r) /\ Len(n) = i)

\* C10: a file write that gets a non-2xx answer or a transport failure is the
\* last remote call of its workflow.
C10_WriteFailureStops ==
    \A r \in Reqs :
        \A i \in 1..Len(calls[r]) :
            (/\ calls[r][i].op = "put"
             /\ (calls[r][i].err \/ calls[r][i].status \notin 200..299))
                => Len(calls[r]) = i

IsCommits(c) == c.op = "commits"

\* A call that was answered with a 2xx status.
Succeeded(c) == ~c.err /\ c.status \in 200..299

\* C11: the remote calls of a workflow are ordered: a file write follows a
\* create-repository call answered 201; the commit-list call follows the
\* four file writes; a notification POST follows a 201 creation, four file
\* writes that all succeeded and a commit list answered 200 with a first
\* entry.
C11_OrderedCalls ==
    \A r \in Reqs :
        \A i \in 1..Len(calls[r]) :
            LET c == calls[r][i]
                created == calls[r][1].op = "create" /\ calls[r][1].status = 201
                written == \A j \in 2..5 : j < i /\ calls[r][j].op = "put"
            IN  /\ c.op = "put" => (i \in 2..5 /\ created)
                /\ c.op = "commits" => (i = 6 /\ created /\ written)
                /\ c.op = "notify" =>
                      /\ i >= 7 /\ created /\ written
                      /\ \A j \in 2..5 : Succeeded(calls[r][j])
                      /\ IsCommits(calls[r][6])
                      /\ calls[r][6].status = 200
                      /\ Len(calls[r][6].answer) > 0

\* C12: every payload POSTed has email, task, round and nonce of the request
\* body, repo_url the html_url answered by the create call, commit_sha the sha
\* of the first entry of the fetched commit list, and pages_url
\* https://{owner login}.github.io/{name}/ of the created repository.
C12_PayloadContents ==
    \A r \in Reqs :
        \A i \in 1..Len(calls[r]) :
            calls[r][i].op = "notify" =>
                LET p == calls[r][i].json
                    d == body[r].data
                    repo == calls[r][1].answer
                    commits == SelectSeq(calls[r], IsCommits)[1].answer
                IN  /\ p.email = d["email"] /\ p.task = d["task"]
                    /\ p.round = d["round"] /\ p.nonce = d["nonce"]
                    /\ p.repo_url = repo.html_url
                    /\ p.commit_sha = commits[1].sha
                    /\ p.pages_url =
                          "https://" \o repo.owner.login \o ".github.io/" \o repo.name \o "/"
                    /\ DOMAIN p = {"email", "task", "round", "nonce", "repo_url",
                                   "commit_sha", "pages_url"}

C12_Witness ==
    \E r \in Reqs :
        /\ outcome[r] = "delivered"
        /\ Len(calls[r]) = 7
        /\ Len(calls[r][6].answer) = 2
        /\ calls[r][6].answer[1].sha # calls[r][6].answer[2].sha
        /\ calls[r][7].json.commit_sha = calls[r][6].answer[1].sha
        /\ calls[r][7].json.round = 2

\* The paths written, in the order of the code.
WrittenPaths == <<"LICENSE", "README.md", "example.py", "config.json">>

\* The i-th remote call of request r is the call a workflow running alone
\* issues at that position, its arguments computed from r's own body and from
\* the answers r's own earlier calls received.
OwnCall(r, i) ==
    LET c == calls[r][i]
        d == body[r].data
        repo == calls[r][1].answer
    IN  IF i = 1 THEN
            /\ c.op = "create"
            /\ c.url = GITHUB_API_URL \o "/user/repos"
            /\ c.json.name = d["task"]
        ELSE IF i \in 2..5 THEN
            /\ c.op = "put"
            /\ c.url = GITHUB_API_URL \o "/repos/" \o repo.full_name \o "/contents/"
                           \o WrittenPaths[i - 1]
        ELSE IF i = 6 THEN
            /\ c.op = "commits"
            /\ c.url = GITHUB_API_URL \o "/repos/" \o repo.full_name \o "/commits"
        ELSE
            /\ c.op = "notify"
            /\ c.url = d["evaluation_url"]
            /\ c.json = [email |-> d["email"], task |-> d["task"], round |-> d["round"],
                         nonce |-> d["nonce"], repo_url |-> repo.html_url,
                         commit_sha |-> calls[r][6].answer[1].sha,
                         pages_url |-> "https://" \o repo.owner.login \o ".github.io/"
                                           \o repo.name \o "/"]

\* The outcome a workflow running alone reaches after its last call c.
OwnOutcome(r) ==
    LET n == Len(calls[r])
        c == calls[r][n]
    IN  IF pc[r] # "done" THEN outcome[r] = "none"
        ELSE IF c.err THEN outcome[r] = "caught"
        ELSE IF c.op = "notify"
             THEN outcome[r] = (IF c.status = 200 THEN "delivered" ELSE "exhausted")
        ELSE outcome[r] \in {"aborted", "caught"}

\* C13: under every interleaving of two workflows, each workflow's calls are
\* those it issues when running alone (same operations, same order, arguments
\* from its own request and its own repository only), its outcome follows
\* from the answers to its own calls, and its locals hold its own data.
C13_NoSharedState ==
    \A r \in Reqs :
        /\ \A i \in 1..Len(calls[r]) : OwnCall(r, i)
        /\ Len(calls[r]) > 0 => OwnOutcome(r)
        /\ repo_data[r] # NoRepo =>
               (Len(calls[r]) > 0 /\ repo_data[r] = calls[r][1].answer)
        /\ Len(sleeps[r]) + (IF pc[r] = "sleep" THEN 1 ELSE 0)
               = Len(SelectSeq(NotifyCalls(r), Refused))

C13_Witness ==
    /\ pc["r1"] = "sleep" /\ Len(sleeps["r1"]) = 2
    /\ pc["r2"] = "readme"
    /\ calls["r1"][1].answer # calls["r2"][1].answer

\* The positions of the calls of request r that satisfy the same operation
\* and URL as its i-th call.
SameCall(r, i) ==
    {j \in 1..Len(calls[r]) :
        calls[r][j].op = calls[r][i].op /\ calls[r][j].url = calls[r][i].url}

\* C14: within one workflow the create-repository call, the write of each
\* path and the commit-list call are each issued at most once, whatever they
\* were answered; only the notification POST is repeated.
C14_NoProvisioningRetry ==
    \A r \in Reqs :
        \A i \in 1..Len(calls[r]) :
            calls[r][i].op # "notify" => SameCall(r, i) = {i}

C14_Witness ==
    \E r \in Reqs :
        /\ Len(calls[r]) = 11
        /\ calls[r][3].status = 422
        /\ calls[r][5].status = 422
        /\ Cardinality(SameCall(r, 7)) = 5

\* C15: however a remote call fails (transport error, refusing status, body
\* that is no JSON, is an error object or is an empty list), the background
\* task ends in a logged terminal state, never with an exception leaving it,
\* and the response given to the HTTP caller stays what the handler returned.
C15_FailureNotSurfaced ==
    \A r \in Reqs :
        /\ outcome[r] \in {"none", "aborted", "caught", "delivered", "exhausted"}
        /\ pc[r] = "done" <=> outcome[r] # "none"
        /\ (pc[r] = "done" /\ exit[r].how = "raised") => outcome[r] = "caught"
        /\ pc[r] # "idle" => http[r] = [HandlerResponse(body[r]) EXCEPT !.sent = TRUE]
        /\ Len(calls[r]) > 0 =>
              LET c == calls[r][Len(calls[r])]
              IN  /\ c.err => (Over(r) /\ exit[r].how = "raised")
                  /\ (c.op \in {"create", "commits"} /\ c.body \in {"error", "text"})
                        => (Over(r) /\ exit[r].how \in {"aborted", "raised"})
                  /\ (c.op = "commits" /\ c.body = "list" /\ Len(c.answer) = 0)
                        => (Over(r) /\ exit[r].how = "raised")

C15_Witness ==
    \E r \in Reqs :
        /\ Len(calls[r]) = 1
        /\ calls[r][1].status = 201
        /\ calls[r][1].body = "error"
        /\ outcome[r] = "caught"
        /\ http[r].status = 200

\* C18: a request answered 500 schedules no background workflow: no task is
\* added and no remote call is ever made for it.
C18_ErrorSchedulesNothing ==
    \A r \in Reqs :
        http[r].status = 500 => (tasks[r] = <<>> /\ calls[r] = <<>> /\ pc[r] = "idle")

C18_Witness ==
    \E r \in Reqs : http[r].status = 500 /\ http[r].sent /\ body[r].kind = "array"

\* C19: every create-repository, write-file and list-commits call carries the
\* Authorization header built from the configured token; no POST to the
\* evaluation URL carries that header, its value or the token.
C19_TokenOnlyToHost ==
    \A r \in Reqs :
        \A i \in 1..Len(calls[r]) :
            LET c == calls[r][i]
            IN  IF c.op = "notify"
                THEN /\ "Authorization" \notin DOMAIN c.headers
                     /\ \A k \in DOMAIN c.headers :
                           c.headers[k] \notin {GITHUB_TOKEN, "token " \o GITHUB_TOKEN}
                     /\ \A k \in DOMAIN c.json \ {"round"} : c.json[k] # GITHUB_TOKEN
                ELSE /\ "Authorization" \in DOMAIN c.headers
                     /\ c.headers["Authorization"] = "token " \o GITHUB_TOKEN

C19_Witness ==
    \E r \in Reqs :
        /\ Len(calls[r]) = 8
        /\ calls[r][8].op = "notify"
        /\ calls[r][8].err
        /\ calls[r][6].headers["Authorization"] = "token " \o GITHUB_TOKEN

\* C16: a background task that has ended did so in one of three ways: aborted
\* at a provisioning step (its last call is a create, write or commit-list
\* call), after a notification answered 200, or after its fifth failed
\* notification attempt; it never made more than 5 attempts.
C16_EndsAsListed ==
    \A r \in Reqs :
        LET n == NotifyCalls(r)
        IN  /\ Len(n) <= Attempts
            /\ Over(r) =>
                  \/ n = <<>>
                  \/ (~n[Len(n)].err /\ n[Len(n)].status = 200)
                  \/ Len(n) = Attempts

\* C16, termination alone: provided every remote call returns, every
\* scheduled background task eventually ends.
C16_Terminates ==
    \A r \in Reqs : (Len(tasks[r]) > 0) ~> (pc[r] = "done" /\ outcome[r] # "none")

\* C17: the workflow issues no remote operation other than create-repository,
\* write-file, list-commits and the notification POST; calls already made are
\* never followed by an undoing call, and once the workflow has ended it
\* issues no call at all, so what it created remotely is left as it is.
C17_NoCompensation ==
    [][\A r \in Reqs :
          /\ \A i \in 1..Len(calls'[r]) :
                calls'[r][i].op \in {"create", "put", "commits", "notify"}
          /\ Len(calls'[r]) >= Len(calls[r])
          /\ SubSeq(calls'[r], 1, Len(calls[r])) = calls[r]
          /\ Over(r) => (calls'[r] = calls[r] /\ pc'[r] \in {"closing", "done"})
          /\ pc[r] = "done" => pc'[r] = "done"]_vars

C17_Witness ==
    \E r \in Reqs :
        /\ Len(calls[r]) = 3
        /\ calls[r][1].status = 201
        /\ Succeeded(calls[r][2])
        /\ calls[r][3].err
        /\ pc[r] = "done"

====
